---- MODULE Spec2Model ----
(***************************************************************************)
(* A model of the go_router REST dispatcher (src/router/router.go).  The   *)
(* file holds two variants of the router:                                  *)
(*   - package router    (lines 1-368): handlers take a typed container    *)
(*     that setInputParam fills from the request parameters;               *)
(*   - package go_router (lines 370-649): handlers take the Request map.   *)
(* Spec is the state machine of package router, SpecGo that of package     *)
(* go_router.  Strings are sequences of one-character strings, so that    *)
(* splitting, trimming, escaping, joining and number parsing are computed  *)
(* as the code computes them.                                              *)
(***************************************************************************)
EXTENDS Integers, Sequences, FiniteSets, TLC

VARIABLES
    routes,    \* routes  (routeMap): method -> path -> Node
    filters,   \* filters (filterMap): name -> Filter
    pc,        \* position of the Dispatch call in flight
    r,         \* the *http.Request of the call in flight
    routeKey,  \* Dispatch's local routeKey
    req,       \* Dispatch's local req (Request map)
    c,         \* Dispatch's local c (the Node found by getNode)
    t,         \* Dispatch's local t (the bound input container)
    todo,      \* filters the running preDispatch/postDispatch loop has not visited
    cont,      \* Dispatch's local cont (what the handler returned)
    w,         \* the http.ResponseWriter: WriteHeader calls and Write calls
    log,       \* history: what the call in flight has done, in order
    last       \* history: the last registration call and what it returned

vars == <<routes, filters, pc, r, routeKey, req, c, t, todo, cont, w, log, last>>

----------------------------------------------------------------------------
(* Bounds of the model.                                                    *)

\* Most name/value pairs a generated request path carries.
MaxPairs == 2
\* Most routes registered.
MaxRoutes == 2

----------------------------------------------------------------------------
(* Strings: sequences of characters.                                       *)

NoValue == "none"

Lower == <<"a","b","c","d","e","f","g","h","i","j","k","l","m",
           "n","o","p","q","r","s","t","u","v","w","x","y","z">>
Upper == <<"A","B","C","D","E","F","G","H","I","J","K","L","M",
           "N","O","P","Q","R","S","T","U","V","W","X","Y","Z">>
Digits == <<"0","1","2","3","4","5","6","7","8","9">>

IsDigit(ch) == \E i \in 1..10 : Digits[i] = ch
DigitVal(ch) == (CHOOSE i \in 1..10 : Digits[i] = ch) - 1

\* unicode.ToUpper on the letters of the model's alphabet
ToUpper(ch) ==
    IF \E i \in 1..26 : Lower[i] = ch
    THEN Upper[CHOOSE i \in 1..26 : Lower[i] = ch]
    ELSE ch

\* unicode.ToLower, as strconv's case-insensitive matching uses it
ToLower(ch) ==
    IF \E i \in 1..26 : Upper[i] = ch
    THEN Lower[CHOOSE i \in 1..26 : Upper[i] = ch]
    ELSE ch

LowerStr(s) == [i \in 1..Len(s) |-> ToLower(s[i])]

\* upperFirst: the first character upper-cased, the rest unchanged
upperFirst(s) ==
    IF s = <<>> THEN <<>> ELSE <<ToUpper(Head(s))>> \o Tail(s)

\* strings.TrimRight(s, "/"): every trailing slash is removed
RECURSIVE TrimRight(_)
TrimRight(s) ==
    IF s # <<>> /\ s[Len(s)] = "/"
    THEN TrimRight(SubSeq(s, 1, Len(s) - 1))
    ELSE s

\* html.EscapeString on one character
EscapeChar(ch) ==
    CASE ch = "<"  -> <<"&","l","t",";">>
      [] ch = ">"  -> <<"&","g","t",";">>
      [] ch = "&"  -> <<"&","a","m","p",";">>
      [] ch = "'"  -> <<"&","#","3","9",";">>
      [] ch = "\"" -> <<"&","#","3","4",";">>
      [] OTHER     -> <<ch>>

\* html.EscapeString
RECURSIVE EscapeString(_)
EscapeString(s) ==
    IF s = <<>> THEN <<>> ELSE EscapeChar(Head(s)) \o EscapeString(Tail(s))

\* strings.Split(s, "/"): the segments between slashes; Split("") is [""]
RECURSIVE SplitFrom(_, _)
SplitFrom(s, cur) ==
    IF s = <<>> THEN <<cur>>
    ELSE IF Head(s) = "/" THEN <<cur>> \o SplitFrom(Tail(s), <<>>)
    ELSE SplitFrom(Tail(s), Append(cur, Head(s)))

Split(s) == SplitFrom(s, <<>>)

\* strings.Join(segs, "/")
RECURSIVE Join(_)
Join(segs) ==
    IF segs = <<>> THEN <<>>
    ELSE IF Len(segs) = 1 THEN segs[1]
    ELSE segs[1] \o <<"/">> \o Join(Tail(segs))

----------------------------------------------------------------------------
(* strconv.  A float64 is the decimal m / 10^e with no trailing zero in    *)
(* the fraction, or one of the values "inf", "-inf", "nan".                *)

RECURSIVE DigitsVal(_)
DigitsVal(s) ==
    IF s = <<>> THEN 0 ELSE DigitsVal(SubSeq(s, 1, Len(s) - 1)) * 10 + DigitVal(s[Len(s)])

AllDigits(s) == \A i \in 1..Len(s) : IsDigit(s[i])

HasSign(s) == s # <<>> /\ Head(s) \in {"+", "-"}
Unsigned(s) == IF HasSign(s) THEN Tail(s) ELSE s
SignOf(s) == IF s # <<>> /\ Head(s) = "-" THEN -1 ELSE 1

\* strconv.ParseInt(s, 10, 64): an optional sign and at least one digit.
\* The model's strings are far shorter than 19 digits: the range error of
\* a value outside int64 does not arise.
ParseInt(s) ==
    LET d == Unsigned(s) IN
    IF d # <<>> /\ AllDigits(d)
    THEN [err |-> FALSE, v |-> SignOf(s) * DigitsVal(d)]
    ELSE [err |-> TRUE, v |-> 0]

RECURSIVE Pow10(_)
Pow10(n) == IF n = 0 THEN 1 ELSE 10 * Pow10(n - 1)

RECURSIVE NormFloat(_, _)
NormFloat(m, e) ==
    IF e > 0 /\ m % 10 = 0 THEN NormFloat(m \div 10, e - 1)
    ELSE [special |-> NoValue, m |-> m, e |-> e]

FloatOfInt(n) == [special |-> NoValue, m |-> n, e |-> 0]

SpecialFloat(name) == [special |-> name, m |-> 0, e |-> 0]

DotAt(s) == IF \E i \in 1..Len(s) : s[i] = "."
            THEN CHOOSE i \in 1..Len(s) : s[i] = "."
            ELSE 0

\* strconv.ParseFloat(s, 64) on the forms the model's alphabet can spell:
\* [sign] digits [. digits], [sign] . digits, and [sign] inf | infinity |
\* nan in any letter case.  (Exponents, hexadecimal floats and underscores
\* are not spelled by any string of the model.)
ParseFloat(s) ==
    LET d    == Unsigned(s)
        low  == LowerStr(d)
        dot  == DotAt(d)
        ip   == IF dot = 0 THEN d ELSE SubSeq(d, 1, dot - 1)
        fp   == IF dot = 0 THEN <<>> ELSE SubSeq(d, dot + 1, Len(d))
    IN
    IF low = <<"i","n","f">> \/ low = <<"i","n","f","i","n","i","t","y">>
    THEN [err |-> FALSE, v |-> SpecialFloat(IF SignOf(s) = -1 THEN "-inf" ELSE "inf")]
    ELSE IF low = <<"n","a","n">> /\ ~HasSign(s)
    THEN [err |-> FALSE, v |-> SpecialFloat("nan")]
    ELSE IF AllDigits(ip) /\ AllDigits(fp) /\ Len(ip) + Len(fp) > 0
    THEN [err |-> FALSE,
          v |-> NormFloat(SignOf(s) * DigitsVal(ip \o fp), Len(fp))]
    ELSE [err |-> TRUE, v |-> FloatOfInt(0)]

\* strconv.ParseBool: exactly these twelve spellings
ParseBool(s) ==
    IF s \in { <<"1">>, <<"t">>, <<"T">>, <<"T","R","U","E">>,
               <<"t","r","u","e">>, <<"T","r","u","e">> }
    THEN [err |-> FALSE, v |-> TRUE]
    ELSE IF s \in { <<"0">>, <<"f">>, <<"F">>, <<"F","A","L","S","E">>,
                    <<"f","a","l","s","e">>, <<"F","a","l","s","e">> }
    THEN [err |-> FALSE, v |-> FALSE]
    ELSE [err |-> TRUE, v |-> FALSE]

\* Go's conversion int64(f) of a float64: truncation toward zero
\* (of a finite value; the model converts no infinity or NaN)
IntOfFloat(f) ==
    IF f.m >= 0 THEN f.m \div Pow10(f.e) ELSE -((-f.m) \div Pow10(f.e))

----------------------------------------------------------------------------
(* Values.  A RequestParam's Value (an interface{}) and a container field  *)
(* are both one of: string, int64, float64, bool, or a value of another    *)
(* dynamic type (a JSON null, array or object; a nil slice).               *)

StrVal(s)   == [kind |-> "string",  s |-> s,    n |-> 0, f |-> FloatOfInt(0), b |-> FALSE]
IntVal(n)   == [kind |-> "int64",   s |-> <<>>, n |-> n, f |-> FloatOfInt(0), b |-> FALSE]
FloatVal(f) == [kind |-> "float64", s |-> <<>>, n |-> 0, f |-> f,             b |-> FALSE]
BoolVal(b)  == [kind |-> "bool",    s |-> <<>>, n |-> 0, f |-> FloatOfInt(0), b |-> b]
OtherVal    == [kind |-> "other",   s |-> <<>>, n |-> 0, f |-> FloatOfInt(0), b |-> FALSE]

\* make(Request), and any other empty map
EmptyMap == [x \in {} |-> NoValue]

\* m[k] = v on a Go map
Put(m, k, v) == (k :> v) @@ m

\* (p *RequestParam) int()
ParamInt(p) ==
    CASE p.kind = "string"  -> ParseInt(p.s)
      [] p.kind = "int64"   -> [err |-> FALSE, v |-> p.n]
      [] p.kind = "float64" -> [err |-> FALSE, v |-> IntOfFloat(p.f)]
      [] OTHER              -> [err |-> TRUE, v |-> -1]

\* (p *RequestParam) float()
ParamFloat(p) ==
    CASE p.kind = "string"  -> ParseFloat(p.s)
      [] p.kind = "int64"   -> [err |-> FALSE, v |-> FloatOfInt(p.n)]
      [] p.kind = "float64" -> [err |-> FALSE, v |-> p.f]
      [] OTHER              -> [err |-> TRUE, v |-> FloatOfInt(-1)]

\* (p *RequestParam) bool()
ParamBool(p) ==
    CASE p.kind = "string" -> ParseBool(p.s)
      [] p.kind = "bool"   -> [err |-> FALSE, v |-> p.b]
      [] OTHER             -> [err |-> TRUE, v |-> FALSE]

----------------------------------------------------------------------------
(* Handlers (Node) and their input containers.                             *)

sId   == <<"i","d">>
sIdU  == <<"I","d">>
sName == <<"n","a","m","e">>
sNameU == <<"N","a","m","e">>
sQ    == <<"q">>
sTagsU == <<"T","a","g","s">>
sScoreU == <<"S","c","o","r","e">>
sFlagU == <<"F","l","a","g">>

Handlers == {"Retrieve", "Save", "Search"}

\* The struct a handler's first parameter points to: field name -> kind.
\*   Retrieve(*struct{Id int64}), Save(*struct{Id int64; Name string}),
\*   Search(*struct{Score float64; Flag bool; Tags []string})
HandlerType(h) ==
    CASE h = "Retrieve" -> (sIdU :> "int64")
      [] h = "Save"     -> (sIdU :> "int64") @@ (sNameU :> "string")
      [] h = "Search"   -> (sScoreU :> "float64") @@ (sFlagU :> "bool") @@ (sTagsU :> "slice")

\* the zero value of a field of the given kind
ZeroOf(kind) ==
    CASE kind = "int64"   -> IntVal(0)
      [] kind = "float64" -> FloatVal(FloatOfInt(0))
      [] kind = "bool"    -> BoolVal(FALSE)
      [] kind = "string"  -> StrVal(<<>>)
      [] OTHER            -> OtherVal

\* reflect.New(p.Elem()): a container with every field zero
NewContainer(type) == [k \in DOMAIN type |-> ZeroOf(type[k])]

\* One iteration of setInputParam's loop, for the entry (k, v) of req:
\* "ok" with the field set, "err" (the function returns an error) or
\* "panic" (v.Value.(string) on a value that is no string).
BindOne(type, cur, k, v) ==
    LET name == upperFirst(k) IN
    IF name \notin DOMAIN type THEN [status |-> "err", t |-> cur]
    ELSE CASE type[name] = "int64" ->
                IF ParamInt(v).err THEN [status |-> "err", t |-> cur]
                ELSE [status |-> "ok", t |-> [cur EXCEPT ![name] = IntVal(ParamInt(v).v)]]
           [] type[name] = "float64" ->
                IF ParamFloat(v).err THEN [status |-> "err", t |-> cur]
                ELSE [status |-> "ok", t |-> [cur EXCEPT ![name] = FloatVal(ParamFloat(v).v)]]
           [] type[name] = "bool" ->
                IF ParamBool(v).err THEN [status |-> "err", t |-> cur]
                ELSE [status |-> "ok", t |-> [cur EXCEPT ![name] = BoolVal(ParamBool(v).v)]]
           [] type[name] = "string" ->
                IF v.kind # "string" THEN [status |-> "panic", t |-> cur]
                ELSE [status |-> "ok", t |-> [cur EXCEPT ![name] = StrVal(v.s)]]
           [] OTHER -> [status |-> "err", t |-> cur]

\* setInputParam's loop over req in the iteration order `order`
RECURSIVE BindLoop(_, _, _, _)
BindLoop(type, cur, params, order) ==
    IF order = <<>> THEN [status |-> "ok", t |-> cur]
    ELSE LET one == BindOne(type, cur, Head(order), params[Head(order)]) IN
         IF one.status # "ok" THEN one
         ELSE BindLoop(type, one.t, params, Tail(order))

\* setInputParam(i, req), the map being ranged over in the order `order`
setInputParam(h, params, order) ==
    BindLoop(HandlerType(h), NewContainer(HandlerType(h)), params, order)

\* The orders in which a range over a map with key set S can visit it.
Orders(S) ==
    { o \in [1..Cardinality(S) -> S] : \A i, j \in 1..Cardinality(S) : i # j => o[i] # o[j] }

----------------------------------------------------------------------------
(* Package router: registries, parsing, responses.                         *)

\* getNode(method, path)
getNode(method, path) ==
    IF method \in DOMAIN routes /\ path \in DOMAIN routes[method]
    THEN [err |-> FALSE, node |-> routes[method][path]]
    ELSE [err |-> TRUE, node |-> NoValue]

\* RegisterRoute without its check for a registered key: the binding is
\* overwritten.
RegisterRouteOverwrites(method, path, n) ==
    IF method \notin DOMAIN routes
    THEN [err |-> FALSE, routes |-> Put(routes, method, Put(EmptyMap, path, n))]
    ELSE [err |-> FALSE, routes |-> Put(routes, method, Put(routes[method], path, n))]

\* What RegisterRoute(method, path, n) returns and leaves in routes.
RegisterRouteResult(method, path, n) ==
    IF method \in DOMAIN routes /\ path \in DOMAIN routes[method]
    THEN [err |-> TRUE, routes |-> routes]
    ELSE IF method \notin DOMAIN routes
    THEN [err |-> FALSE, routes |-> Put(routes, method, Put(EmptyMap, path, n))]
    ELSE [err |-> FALSE, routes |-> Put(routes, method, Put(routes[method], path, n))]

\* RegisterFilter starting a fresh map for every new name: the filters
\* registered before are dropped.
RegisterFilterResets(name, f) ==
    IF name \in DOMAIN filters
    THEN [err |-> TRUE, filters |-> filters]
    ELSE [err |-> FALSE, filters |-> Put(EmptyMap, name, f)]

\* RegisterFilter without its check for a taken name.
RegisterFilterOverwrites(name, f) ==
    [err |-> FALSE, filters |-> Put(filters, name, f)]

\* What RegisterFilter(name, f) returns and leaves in filters.
RegisterFilterResult(name, f) ==
    IF name \in DOMAIN filters
    THEN [err |-> TRUE, filters |-> filters]
    ELSE [err |-> FALSE, filters |-> Put(filters, name, f)]

\* The loop of parseGet: for i := 4; i < l-1; i += 2 { req[s[i]] = s[i+1] }
\* (Go indexes from 0: s[i] is segs[i + 1] here.)
RECURSIVE GetLoop(_, _, _)
GetLoop(segs, i, params) ==
    IF i < Len(segs) - 1
    THEN GetLoop(segs, i + 2, Put(params, segs[i + 1], StrVal(segs[i + 2])))
    ELSE params

\* parseGet without the l%2 != 0 half of its shape check.
parseGetNoPairCheck(path, params) ==
    LET segs == Split(EscapeString(TrimRight(path)))
        l    == Len(segs)
    IN
    IF l <= 3
    THEN [err |-> TRUE, key |-> <<>>, req |-> params]
    ELSE [err |-> FALSE, key |-> Join(SubSeq(segs, 1, 4)), req |-> GetLoop(segs, 4, params)]

\* parseGet joining every segment into the route key, not the first four.
parseGetWholeKey(path, params) ==
    LET segs == Split(EscapeString(TrimRight(path)))
        l    == Len(segs)
    IN
    IF l <= 3 \/ l % 2 # 0
    THEN [err |-> TRUE, key |-> <<>>, req |-> params]
    ELSE [err |-> FALSE, key |-> Join(segs), req |-> GetLoop(segs, 4, params)]

\* parseGet(r, req) of package router
parseGet(path, params) ==
    LET segs == Split(EscapeString(TrimRight(path)))
        l    == Len(segs)
    IN
    IF l <= 3 \/ l % 2 # 0
    THEN [err |-> TRUE, key |-> <<>>, req |-> params]
    ELSE [err |-> FALSE, key |-> Join(SubSeq(segs, 1, 4)), req |-> GetLoop(segs, 4, params)]

\* parseForm(r, req): for k, v := range r.Form { req[k] = v[0] }
parseForm(form, params) ==
    [k \in DOMAIN form \cup DOMAIN params |->
        IF k \in DOMAIN form THEN StrVal(form[k][1]) ELSE params[k]]

\* parseBody(r, req): a body that is no JSON object fails; else every
\* top-level key is stored with its decoded value.
parseBody(body, params) ==
    IF body.err THEN [err |-> TRUE, req |-> params]
    ELSE [err |-> FALSE,
          req |-> [k \in DOMAIN body.obj \cup DOMAIN params |->
                      IF k \in DOMAIN body.obj THEN body.obj[k] ELSE params[k]]]

\* The http.ResponseWriter.  header: the status codes passed to WriteHeader,
\* with the implicit WriteHeader(200) of a Write that no WriteHeader
\* preceded; body: the payloads of the Write calls.
NewWriter == [contentType |-> "application/json", header |-> <<>>, body |-> <<>>]

TextBody(msg) == [kind |-> "text", text |-> msg, data |-> <<>>]
JsonBody(data) == [kind |-> "json", text |-> "", data |-> data]

WriteBody(wr, payload) ==
    [wr EXCEPT !.header = IF wr.header = <<>> THEN <<200>> ELSE wr.header,
               !.body = Append(wr.body, payload)]

\* notFound(w, r)
notFound(wr) ==
    WriteBody([wr EXCEPT !.header = Append(wr.header, 404)],
              TextBody("Resource Not Found.\n"))

\* notSupported(w, r)
notSupported(wr) ==
    WriteBody([wr EXCEPT !.header = Append(wr.header, 404)],
              TextBody("Request Method  is not supported.\n"))

\* internalError(w, r)
internalError(wr) ==
    WriteBody([wr EXCEPT !.header = Append(wr.header, 500)],
              TextBody("Internal Server Error.\n"))

\* What a handler can return: a result value and whether its error is
\* non-nil.  The result is a string, or a value encoding/json cannot
\* encode (a channel).
StrResult  == [kind |-> "string", s |-> <<"u","s","e","r">>]
ChanResult == [kind |-> "chan", s |-> <<>>]
Outcomes ==
    { [result |-> StrResult, err |-> FALSE],
      [result |-> ChanResult, err |-> FALSE],
      [result |-> StrResult, err |-> TRUE] }
NoOutcome == [result |-> ChanResult, err |-> TRUE]

\* json.Marshal of a handler's result
Marshal(v) ==
    IF v.kind = "string"
    THEN [err |-> FALSE, data |-> <<"\"">> \o v.s \o <<"\"">>]
    ELSE [err |-> TRUE, data |-> <<>>]

\* An entry of the history: the step, the filter or handler it ran, whether
\* it returned without error, the argument it was given, and, for a hook,
\* the parameters the hook stored into the map it was given.
HookEvent(ev, name, ok, arg, wrote) ==
    [ev |-> ev, name |-> name, ok |-> ok, arg |-> arg, wrote |-> wrote]

Event(ev, name, ok, arg) == HookEvent(ev, name, ok, arg, EmptyMap)

----------------------------------------------------------------------------
(* The requests and the registration calls the model draws from.           *)

sV1       == <<"v","1">>
sTest     == <<"t","e","s","t">>
sRetrieve == <<"r","e","t","r","i","e","v","e">>
sSave     == <<"s","a","v","e">>
s42       == <<"4","2">>
s7        == <<"7">>
sX        == <<"x">>

\* The path "/" seg1 "/" seg2 ...
MkPath(segs) == Join(<<<<>>>> \o segs)

pRetrieve == MkPath(<<sV1, sTest, sRetrieve>>)
pSave     == MkPath(<<sV1, sTest, sSave>>)

NoBody  == [err |-> FALSE, obj |-> EmptyMap]
BadBody == [err |-> TRUE, obj |-> EmptyMap]
NoRequest == [method |-> "", path |-> <<>>, formErr |-> FALSE, form |-> EmptyMap, body |-> NoBody]

Request(method, path, formErr, form, body) ==
    [method |-> method, path |-> path, formErr |-> formErr, form |-> form, body |-> body]

\* r.Form of "?id=7" and of "?q=x"
FormId7 == (sId :> <<s7>>)
FormQ   == (sQ :> <<sX>>)

\* Paths with an empty segment: /v1//retrieve and /v1/test/retrieve//42.
pEmptyResource == MkPath(<<sV1, <<>>, sRetrieve>>)
pEmptyName == MkPath(<<sV1, sTest, sRetrieve, <<>>, s42>>)

\* A path naming id and Id: /v1/test/retrieve/id/7/Id/42.
pIdTwice == MkPath(<<sV1, sTest, sRetrieve, sId, s7, sIdU, s42>>)

\* Paths of GET and DELETE requests: well-formed with 0, 1 and 2 pairs, a
\* trailing slash, a parameter name without a value, too few segments, a
\* value no int64 parses from, a name no field carries, an unregistered
\* handler segment, an empty segment, two names of one field.
GetPaths ==
    { pRetrieve,
      MkPath(<<sV1, sTest, sRetrieve, sId, s42>>),
      MkPath(<<sV1, sTest, sRetrieve, sId, s7, sId, s42>>),
      MkPath(<<sV1, sTest, sRetrieve, sId, s42>>) \o <<"/">>,
      MkPath(<<sV1, sTest, sRetrieve, sId>>),
      MkPath(<<sV1, sTest>>),
      MkPath(<<sV1, sTest, sRetrieve, sId, sX>>),
      MkPath(<<sV1, sTest, sRetrieve, sQ, s42>>),
      MkPath(<<sV1, sTest, sX, sId, s42>>),
      pEmptyResource, pEmptyName, pIdTwice }

\* Decoded JSON bodies of POST requests: {"id": 5, "name": "x"},
\* {"id": 2.5}, {"name": 5}, and a body that is no JSON object.
PostBodies ==
    { [err |-> FALSE, obj |-> (sId :> FloatVal(FloatOfInt(5))) @@ (sName :> StrVal(sX))],
      [err |-> FALSE, obj |-> (sId :> FloatVal(NormFloat(25, 1)))],
      [err |-> FALSE, obj |-> (sName :> FloatVal(FloatOfInt(5)))],
      BadBody }

Requests ==
    { Request("GET", p, FALSE, f, NoBody) : p \in GetPaths, f \in {EmptyMap, FormId7, FormQ} }
    \cup { Request("DELETE", p, FALSE, EmptyMap, NoBody) :
             p \in {pRetrieve, MkPath(<<sV1, sTest, sRetrieve, sId>>)} }
    \cup { Request("POST", pSave, FALSE, f, b) : f \in {EmptyMap, FormId7}, b \in PostBodies }
    \cup { Request("PUT", pRetrieve, FALSE, EmptyMap, NoBody) }
    \cup { Request(m, pRetrieve, TRUE, EmptyMap, NoBody) : m \in {"GET", "POST", "PUT"} }

\* The arguments of the RegisterRoute and RegisterFilter calls.
RouteKeys == { <<"GET", pRetrieve>>, <<"DELETE", pRetrieve>>, <<"POST", pSave>> }
RouteNodes == {"Retrieve", "Save"}
FilterNames == {"auth", "audit"}
FilterObjs == {"F1", "F2"}

\* What a PreDispatch hook stores into the parameter map it is given:
\* nothing, or the parameter id with the value "9".
s9 == <<"9">>
HookWrites == { EmptyMap, sId :> StrVal(s9) }

NumRoutes == Cardinality({ k \in RouteKeys : ~getNode(k[1], k[2]).err })

----------------------------------------------------------------------------
(* Package router: the state machine.                                      *)

BlankWriter == [contentType |-> "", header |-> <<>>, body |-> <<>>]
NoCall == [op |-> "none", a |-> "", b |-> <<>>, node |-> "", err |-> FALSE, before |-> EmptyMap]

Init ==
    /\ routes = EmptyMap
    /\ filters = EmptyMap
    /\ pc = "idle"
    /\ r = NoRequest
    /\ routeKey = <<>>
    /\ req = EmptyMap
    /\ c = NoValue
    /\ t = EmptyMap
    /\ todo = {}
    /\ cont = NoOutcome
    /\ w = BlankWriter
    /\ log = <<>>
    /\ last = NoCall

\* RegisterRoute(method, path, n), called while no request is served
RegisterRoute(method, path, n) ==
    /\ pc = "idle"
    /\ NumRoutes < MaxRoutes \/ RegisterRouteResult(method, path, n).err
    /\ routes' = RegisterRouteResult(method, path, n).routes
    /\ last' = [op |-> "RegisterRoute", a |-> method, b |-> path, node |-> n,
                err |-> RegisterRouteResult(method, path, n).err, before |-> routes]
    /\ UNCHANGED <<filters, pc, r, routeKey, req, c, t, todo, cont, w, log>>

\* RegisterFilter(name, f), called while no request is served
RegisterFilter(name, f) ==
    /\ pc = "idle"
    /\ filters' = RegisterFilterResult(name, f).filters
    /\ last' = [op |-> "RegisterFilter", a |-> name, b |-> <<>>, node |-> f,
                err |-> RegisterFilterResult(name, f).err, before |-> filters]
    /\ UNCHANGED <<routes, pc, r, routeKey, req, c, t, todo, cont, w, log>>

\* Dispatch is entered: req := make(Request); Content-Type is set; the
\* recovering function is deferred.
Receive(rq) ==
    /\ pc = "idle"
    /\ pc' = "ParseForm"
    /\ r' = rq
    /\ w' = NewWriter
    /\ last' = NoCall
    /\ UNCHANGED <<routes, filters, routeKey, req, c, t, todo, cont, log>>

\* The deferred function recovering the panic without writing a response.
PanicSwallowed ==
    /\ pc' = "done"
    /\ UNCHANGED w

\* A panic: the deferred function recovers it and calls internalError;
\* Dispatch returns.
Panic ==
    /\ w' = internalError(w)
    /\ pc' = "done"

\* err := r.ParseForm(); if err != nil { panic(err) }
DoParseForm ==
    /\ pc = "ParseForm"
    /\ IF r.formErr
       THEN Panic /\ log' = Append(log, Event("ParseForm", "", FALSE, EmptyMap))
       ELSE /\ pc' = "switch"
            /\ UNCHANGED <<w, log>>
    /\ UNCHANGED <<routes, filters, r, routeKey, req, c, t, todo, cont, last>>

\* The switch with a default case that does not return.
DoSwitchFallsThrough ==
    /\ pc = "switch"
    /\ IF r.method \in {"GET", "DELETE"}
       THEN IF parseGet(r.path, req).err
            THEN /\ w' = notFound(w)
                 /\ pc' = "done"
                 /\ UNCHANGED <<routeKey, req>>
            ELSE /\ routeKey' = parseGet(r.path, req).key
                 /\ req' = parseGet(r.path, req).req
                 /\ pc' = "getNode"
                 /\ UNCHANGED w
       ELSE IF r.method = "POST"
       THEN IF parseBody(r.body, req).err
            THEN /\ Panic
                 /\ routeKey' = r.path
                 /\ UNCHANGED req
            ELSE /\ routeKey' = r.path
                 /\ req' = parseBody(r.body, req).req
                 /\ pc' = "getNode"
                 /\ UNCHANGED w
       ELSE /\ w' = notSupported(w)
            /\ pc' = "getNode"
            /\ UNCHANGED <<routeKey, req>>
    /\ log' = Append(log, Event("switch", r.method, pc' = "getNode", EmptyMap))
    /\ UNCHANGED <<routes, filters, r, c, t, todo, cont, last>>

\* switch r.Method { ... }
DoSwitch ==
    /\ pc = "switch"
    /\ IF r.method \in {"GET", "DELETE"}
       THEN IF parseGet(r.path, req).err
            THEN /\ w' = notFound(w)
                 /\ pc' = "done"
                 /\ UNCHANGED <<routeKey, req>>
            ELSE /\ routeKey' = parseGet(r.path, req).key
                 /\ req' = parseGet(r.path, req).req
                 /\ pc' = "getNode"
                 /\ UNCHANGED w
       ELSE IF r.method = "POST"
       THEN IF parseBody(r.body, req).err
            THEN /\ Panic
                 /\ routeKey' = r.path
                 /\ UNCHANGED req
            ELSE /\ routeKey' = r.path
                 /\ req' = parseBody(r.body, req).req
                 /\ pc' = "getNode"
                 /\ UNCHANGED w
       ELSE /\ w' = notSupported(w)
            /\ pc' = "done"
            /\ UNCHANGED <<routeKey, req>>
    /\ log' = Append(log, Event("switch", r.method, pc' = "getNode", EmptyMap))
    /\ UNCHANGED <<routes, filters, r, c, t, todo, cont, last>>

\* c, err := getNode(r.Method, routeKey)
DoGetNode ==
    /\ pc = "getNode"
    /\ IF getNode(r.method, routeKey).err
       THEN /\ w' = notFound(w)
            /\ pc' = "done"
            /\ UNCHANGED c
       ELSE /\ c' = getNode(r.method, routeKey).node
            /\ pc' = "setInputParam"
            /\ UNCHANGED w
    /\ log' = Append(log, Event("getNode", r.method, pc' = "setInputParam", EmptyMap))
    /\ UNCHANGED <<routes, filters, r, routeKey, req, t, todo, cont, last>>

\* t, err := setInputParam(i, req), the range over req visiting it in
\* some order
DoSetInputParam ==
    /\ pc = "setInputParam"
    /\ \E order \in Orders(DOMAIN req) :
         LET res == setInputParam(c, req, order) IN
         /\ t' = res.t
         /\ log' = Append(log, Event("setInputParam", c, res.status = "ok", req))
         /\ IF res.status = "ok"
            THEN pc' = "parseForm" /\ UNCHANGED w
            ELSE IF res.status = "err"
            THEN w' = notFound(w) /\ pc' = "done"
            ELSE Panic
    /\ UNCHANGED <<routes, filters, r, routeKey, req, c, todo, cont, last>>

\* req = parseForm(r, req); preDispatch starts its range over filters
DoParseFormMerge ==
    /\ pc = "parseForm"
    /\ req' = parseForm(r.form, req)
    /\ log' = Append(log, Event("parseForm", "", TRUE, req'))
    /\ todo' = DOMAIN filters
    /\ pc' = "preDispatch"
    /\ UNCHANGED <<routes, filters, r, routeKey, c, t, cont, w, last>>

\* preDispatch dropping the error a PreDispatch hook returns.
PreHookIgnoresFailure(name, fail, wr) ==
    /\ pc = "preDispatch"
    /\ name \in todo
    /\ log' = Append(log, HookEvent("PreDispatch", name, ~fail, req, wr))
    /\ req' = wr @@ req
    /\ todo' = todo \ {name}
    /\ UNCHANGED <<pc, w>>
    /\ UNCHANGED <<routes, filters, r, routeKey, c, t, cont, last>>

\* preDispatch handing every hook a copy of the parameter map, so that what
\* a hook stores is lost when the hook returns.
PreHookOnCopy(name, fail, wr) ==
    /\ pc = "preDispatch"
    /\ name \in todo
    /\ log' = Append(log, HookEvent("PreDispatch", name, ~fail, req, wr))
    /\ IF fail
       THEN Panic /\ UNCHANGED todo
       ELSE todo' = todo \ {name} /\ UNCHANGED <<pc, w>>
    /\ UNCHANGED <<routes, filters, r, routeKey, req, c, t, cont, last>>

\* One iteration of preDispatch's range over filters: some filter not yet
\* visited has its PreDispatch called with the request's parameter map (a Go
\* map, so the hook and its caller share it); the hook stores the parameters
\* wr into the map and returns nil or an error.
PreHook(name, fail, wr) ==
    /\ pc = "preDispatch"
    /\ name \in todo
    /\ log' = Append(log, HookEvent("PreDispatch", name, ~fail, req, wr))
    /\ req' = wr @@ req
    /\ IF fail
       THEN Panic /\ UNCHANGED todo
       ELSE todo' = todo \ {name} /\ UNCHANGED <<pc, w>>
    /\ UNCHANGED <<routes, filters, r, routeKey, c, t, cont, last>>

\* Dispatch not looking at the error the handler returns.
DoCallIgnoresError(out) ==
    /\ pc = "preDispatch"
    /\ todo = {}
    /\ cont' = out
    /\ log' = Append(log, Event("Call", c, ~out.err, t))
    /\ pc' = "postDispatch" /\ todo' = DOMAIN filters /\ UNCHANGED w
    /\ UNCHANGED <<routes, filters, r, routeKey, req, c, t, last>>

\* cont := i.Call([]reflect.Value{t}), after preDispatch returned nil
DoCall(out) ==
    /\ pc = "preDispatch"
    /\ todo = {}
    /\ cont' = out
    /\ log' = Append(log, Event("Call", c, ~out.err, t))
    /\ IF out.err
       THEN Panic /\ UNCHANGED todo
       ELSE pc' = "postDispatch" /\ todo' = DOMAIN filters /\ UNCHANGED w
    /\ UNCHANGED <<routes, filters, r, routeKey, req, c, t, last>>

\* postDispatch returning after the first hook instead of after the loop.
PostHookReturnsEarly(name, fail) ==
    /\ pc = "postDispatch"
    /\ name \in todo
    /\ log' = Append(log, Event("PostDispatch", name, ~fail, req))
    /\ IF fail
       THEN Panic /\ UNCHANGED todo
       ELSE todo' = {} /\ UNCHANGED <<pc, w>>
    /\ UNCHANGED <<routes, filters, r, routeKey, req, c, t, cont, last>>

\* One iteration of postDispatch's range over filters.
PostHook(name, fail) ==
    /\ pc = "postDispatch"
    /\ name \in todo
    /\ log' = Append(log, Event("PostDispatch", name, ~fail, req))
    /\ IF fail
       THEN Panic /\ UNCHANGED todo
       ELSE todo' = todo \ {name} /\ UNCHANGED <<pc, w>>
    /\ UNCHANGED <<routes, filters, r, routeKey, req, c, t, cont, last>>

\* data, err := json.Marshal(cont[0].Interface()); fmt.Fprintf(w, "%s", data)
DoMarshal ==
    /\ pc = "postDispatch"
    /\ todo = {}
    /\ log' = Append(log, Event("Marshal", c, ~Marshal(cont.result).err, EmptyMap))
    /\ IF Marshal(cont.result).err
       THEN Panic
       ELSE w' = WriteBody(w, JsonBody(Marshal(cont.result).data)) /\ pc' = "done"
    /\ UNCHANGED <<routes, filters, r, routeKey, req, c, t, todo, cont, last>>

\* Dispatch has returned; its locals are gone.
Return ==
    /\ pc = "done"
    /\ pc' = "idle"
    /\ r' = NoRequest
    /\ routeKey' = <<>>
    /\ req' = EmptyMap
    /\ c' = NoValue
    /\ t' = EmptyMap
    /\ todo' = {}
    /\ cont' = NoOutcome
    /\ w' = BlankWriter
    /\ log' = <<>>
    /\ UNCHANGED <<routes, filters, last>>

Next ==
    \/ \E k \in RouteKeys, n \in RouteNodes : RegisterRoute(k[1], k[2], n)
    \/ \E name \in FilterNames, f \in FilterObjs : RegisterFilter(name, f)
    \/ \E rq \in Requests : Receive(rq)
    \/ DoParseForm
    \/ DoSwitch
    \/ DoGetNode
    \/ DoSetInputParam
    \/ DoParseFormMerge
    \/ \E name \in FilterNames, fail \in BOOLEAN, wr \in HookWrites : PreHook(name, fail, wr)
    \/ \E out \in Outcomes : DoCall(out)
    \/ \E name \in FilterNames, fail \in BOOLEAN : PostHook(name, fail)
    \/ DoMarshal
    \/ Return

Spec == Init /\ [][Next]_vars

----------------------------------------------------------------------------
(* Reading the history.                                                    *)

Done == pc = "done"

\* The places of the history where an event of the kind `ev` stands.
At(ev) == { i \in DOMAIN log : log[i].ev = ev }
AtNamed(ev, name) == { i \in At(ev) : log[i].name = name }

HookEvents == At("PreDispatch") \cup At("PostDispatch")

\* The status the client sees: the first WriteHeader wins.
Status == IF w.header = <<>> THEN 0 ELSE w.header[1]

Unsupported(m) == m \notin {"GET", "DELETE", "POST"}

NotFoundBody == TextBody("Resource Not Found.\n")
NotSupportedBody == TextBody("Request Method  is not supported.\n")
InternalErrorBody == TextBody("Internal Server Error.\n")

----------------------------------------------------------------------------
(* C1 - RegisterRoute: a call with a (method, path) already registered     *)
(* returns an error and leaves the registry as it was, the handler         *)
(* registered first staying bound; a call with a (method, path) not yet    *)
(* registered succeeds - also when the path is registered under another    *)
(* method - and adds exactly that binding.                                 *)
C1_RegisterRouteOncePerKey ==
    last.op = "RegisterRoute" =>
        LET was == last.a \in DOMAIN last.before /\ last.b \in DOMAIN last.before[last.a] IN
        /\ last.err <=> was
        /\ was => routes = last.before
        /\ ~was =>
            /\ last.a \in DOMAIN routes /\ last.b \in DOMAIN routes[last.a]
            /\ routes[last.a][last.b] = last.node
            /\ \A m \in DOMAIN last.before : \A q \in DOMAIN last.before[m] :
                 /\ m \in DOMAIN routes /\ q \in DOMAIN routes[m]
                 /\ routes[m][q] = last.before[m][q]
            /\ \A m \in DOMAIN routes : \A q \in DOMAIN routes[m] :
                 <<m, q>> # <<last.a, last.b>> =>
                     m \in DOMAIN last.before /\ q \in DOMAIN last.before[m]

\* A second registration of a key with another handler was refused, the
\* first handler is still bound, and the same path is bound under another
\* method as well.
C1_Witness ==
    /\ last.op = "RegisterRoute" /\ last.err
    /\ routes[last.a][last.b] # last.node
    /\ \E m \in DOMAIN routes : m # last.a /\ last.b \in DOMAIN routes[m]

(* C2 - RegisterFilter: a call whose name is taken returns an error and    *)
(* leaves the registry as it was; a call with a new name succeeds and adds *)
(* exactly that entry.                                                     *)
C2_RegisterFilterOncePerName ==
    last.op = "RegisterFilter" =>
        LET was == last.a \in DOMAIN last.before IN
        /\ last.err <=> was
        /\ was => filters = last.before
        /\ ~was =>
            /\ DOMAIN filters = DOMAIN last.before \cup {last.a}
            /\ filters[last.a] = last.node
            /\ \A k \in DOMAIN last.before : filters[k] = last.before[k]

\* A second registration of a name with another filter was refused and the
\* first filter is still registered.
C2_Witness ==
    /\ last.op = "RegisterFilter" /\ last.err
    /\ filters[last.a] # last.node

----------------------------------------------------------------------------
\* Binding succeeded, every hook called returned nil and the handler
\* returned a nil error.
SuccessfulRun ==
    /\ \E i \in At("setInputParam") : log[i].ok
    /\ \A i \in HookEvents : log[i].ok
    /\ \E i \in At("Call") : log[i].ok

\* Every registered filter's hook `ev` ran exactly once.
EachOnce(ev) ==
    /\ \A i \in At(ev) : log[i].name \in DOMAIN filters
    /\ \A name \in DOMAIN filters : Cardinality(AtNamed(ev, name)) = 1

\* The order of a successful request: pre-dispatch hooks, the handler once,
\* post-dispatch hooks, and only then the first byte of the body.
HooksAroundHandler ==
    /\ EachOnce("PreDispatch")
    /\ Cardinality(At("Call")) = 1
    /\ EachOnce("PostDispatch")
    /\ \A i \in At("PreDispatch"), j \in At("Call") : i < j
    /\ \A i \in At("PostDispatch"), j \in At("Call") : j < i
    /\ \A i \in At("PostDispatch"), j \in At("Marshal") : i < j

\* No byte of the body is written while Dispatch still runs its stages.
BodyOnlyAtEnd == pc # "done" => w.body = <<>>

HandlerResultWritten ==
    /\ w.header = <<200>>
    /\ w.body = <<JsonBody(Marshal(cont.result).data)>>

(* C3 as stated - a request whose route is registered, whose binding and   *)
(* hooks succeed and whose handler returns no failure runs every           *)
(* PreDispatch hook exactly once before the handler, the handler once,     *)
(* every PostDispatch hook exactly once after it and before the body is    *)
(* written, and is answered with the handler's serialized result.          *)
C3_AsStated ==
    /\ BodyOnlyAtEnd
    /\ (Done /\ SuccessfulRun) => (HooksAroundHandler /\ HandlerResultWritten)

(* C3 as amended - the same, for a handler result that json.Marshal        *)
(* encodes; whatever the result, the hooks and the handler run in that     *)
(* order, exactly once each.                                               *)
C3_SuccessfulRequest ==
    /\ BodyOnlyAtEnd
    /\ (Done /\ SuccessfulRun) =>
          /\ HooksAroundHandler
          /\ ~Marshal(cont.result).err => HandlerResultWritten

\* A successful request through two filters, answered with the result.
C3_Witness ==
    /\ Done /\ SuccessfulRun
    /\ Cardinality(DOMAIN filters) = 2
    /\ HandlerResultWritten

(* C4 - a PreDispatch hook that returns a failure is the last thing the    *)
(* request does: no further PreDispatch hook, no handler, no PostDispatch  *)
(* hook, and the response is 500.                                          *)
C4_PreDispatchFailureIsFatal ==
    \A i \in At("PreDispatch") :
        ~log[i].ok =>
            /\ i = Len(log)
            /\ At("Call") = {} /\ At("PostDispatch") = {}
            /\ Done
            /\ w.header = <<500>> /\ w.body = <<InternalErrorBody>>

\* The second hook visited failed while another filter was still to come.
C4_Witness ==
    /\ Done
    /\ \E i \in At("PreDispatch") : ~log[i].ok
    /\ \E i \in At("PreDispatch") : log[i].ok
    /\ Cardinality(DOMAIN filters) = 2

(* C5 - a handler that returns a non-nil failure after the PreDispatch     *)
(* hooks succeeded: no PostDispatch hook runs, its result is not           *)
(* serialized, and the response is 500.                                    *)
C5_HandlerFailureIsFatal ==
    \A i \in At("Call") :
        ~log[i].ok =>
            /\ i = Len(log)
            /\ At("PostDispatch") = {} /\ At("Marshal") = {}
            /\ Done
            /\ w.header = <<500>> /\ w.body = <<InternalErrorBody>>

\* The handler failed with filters registered whose PreDispatch succeeded.
C5_Witness ==
    /\ Done
    /\ \E i \in At("Call") : ~log[i].ok
    /\ At("PreDispatch") # {}

(* C6 as stated - a request whose method is not GET, DELETE or POST gets a *)
(* 404 response, and no handler and no filter hook is invoked.             *)
C6_AsStated ==
    (Done /\ Unsupported(r.method)) =>
        /\ Status = 404
        /\ At("Call") = {} /\ HookEvents = {}

(* C6 as amended - such a request invokes no handler and no filter hook,   *)
(* and it gets the method-not-supported 404 response when its form parses  *)
(* (when r.ParseForm fails, the failure boundary answers 500 before the    *)
(* method is looked at).                                                   *)
C6_UnsupportedMethod ==
    (Done /\ Unsupported(r.method)) =>
        /\ At("Call") = {} /\ HookEvents = {} /\ At("getNode") = {}
        /\ ~r.formErr => (w.header = <<404>> /\ w.body = <<NotSupportedBody>>)
        /\ r.formErr => (w.header = <<500>> /\ w.body = <<InternalErrorBody>>)

\* A PUT request was answered 404 with a route and a filter registered.
C6_Witness ==
    /\ Done /\ Unsupported(r.method) /\ ~r.formErr
    /\ DOMAIN routes # {} /\ DOMAIN filters # {}

----------------------------------------------------------------------------
\* The path has fewer than the three mandatory segments, or a trailing
\* parameter name without a value.
BadShape(path) ==
    LET n == Len(Split(TrimRight(path))) IN n <= 3 \/ n % 2 = 1

\* Nothing past the route lookup took place.
NothingPastLookup ==
    /\ At("setInputParam") = {} /\ HookEvents = {} /\ At("Call") = {}

(* C8 as stated - a GET or DELETE request with a malformed path or without *)
(* a registered handler is answered 404; nothing is bound, no hook and no  *)
(* handler runs.                                                           *)
C8_AsStated ==
    (Done /\ r.method \in {"GET", "DELETE"}
          /\ (BadShape(r.path) \/ getNode(r.method, parseGet(r.path, EmptyMap).key).err)) =>
        /\ Status = 404
        /\ NothingPastLookup

(* C8 as amended - the same for a request whose form parses; when          *)
(* r.ParseForm fails the response is 500, and still nothing is bound and   *)
(* no hook and no handler runs.                                            *)
C8_UnroutableGet ==
    (Done /\ r.method \in {"GET", "DELETE"}
          /\ (BadShape(r.path) \/ getNode(r.method, parseGet(r.path, EmptyMap).key).err)) =>
        /\ NothingPastLookup
        /\ ~r.formErr => (w.header = <<404>> /\ w.body = <<NotFoundBody>>)
        /\ r.formErr => w.header = <<500>>

\* A path with a dangling parameter name was answered 404 although its
\* first three segments name a registered route.
C8_Witness ==
    /\ Done /\ r.method \in {"GET", "DELETE"} /\ ~r.formErr
    /\ BadShape(r.path)
    /\ Len(Split(r.path)) = 5
    /\ ~getNode(r.method, Join(SubSeq(Split(r.path), 1, 4))).err
    /\ w.header = <<404>>

----------------------------------------------------------------------------
(* C10 - form parameters are merged into the Request Parameter Set before  *)
(* the binder runs: the binder's input holds every form parameter, so a    *)
(* form parameter naming a field populates it and one naming no field      *)
(* fails the binding.                                                      *)
C10_FormSeenByBinder ==
    \A i \in At("setInputParam") :
        /\ \A k \in DOMAIN r.form :
              /\ k \in DOMAIN log[i].arg
              /\ log[i].arg[k] = StrVal(r.form[k][1])
              /\ upperFirst(k) \notin DOMAIN HandlerType(c) => ~log[i].ok
        /\ \A j \in At("Call") : \A k \in DOMAIN r.form :
              (upperFirst(k) \in DOMAIN HandlerType(c)
                  /\ HandlerType(c)[upperFirst(k)] = "int64") =>
                  log[j].arg[upperFirst(k)] = IntVal(ParseInt(r.form[k][1]).v)

----------------------------------------------------------------------------
(* Dispatch of generated GET and DELETE requests against a fixed registry: *)
(* every path /version/resource/handler followed by at most MaxPairs       *)
(* name/value pairs.                                                       *)

sAmp == <<"a","&","b">>
sLt  == <<"<">>

GenPrefixes == { <<sV1, res, sRetrieve>> : res \in {sTest, sAmp} }
PairNames == {sId, sLt}
PairValues == {s42, s7, sAmp}

RECURSIVE Tails(_)
Tails(k) ==
    IF k = 0 THEN { <<>> }
    ELSE { <<name, value>> \o tl : name \in PairNames, value \in PairValues, tl \in Tails(k - 1) }

GenTails == UNION { Tails(k) : k \in 0..MaxPairs }

GenRequests ==
    { Request(m, MkPath(pre \o tl), FALSE, EmptyMap, NoBody) :
        m \in {"GET", "DELETE"}, pre \in GenPrefixes, tl \in GenTails }

InitPaths ==
    /\ routes = ("GET" :> (pRetrieve :> "Retrieve"))
    /\ filters = EmptyMap
    /\ pc = "ParseForm"
    /\ r \in GenRequests
    /\ routeKey = <<>>
    /\ req = EmptyMap
    /\ c = NoValue
    /\ t = EmptyMap
    /\ todo = {}
    /\ cont = NoOutcome
    /\ w = NewWriter
    /\ log = <<>>
    /\ last = NoCall

NextPaths ==
    \/ DoParseForm
    \/ DoSwitch
    \/ DoGetNode
    \/ DoSetInputParam
    \/ DoParseFormMerge
    \/ \E out \in Outcomes : DoCall(out)
    \/ DoMarshal

SpecPaths == InitPaths /\ [][NextPaths]_vars

\* The parameters the pairs of a tail spell: each name with the value of
\* its last occurrence.
PairCount(tl) == Len(tl) \div 2
LastOf(tl, name) ==
    tl[2 * (CHOOSE j \in 1..PairCount(tl) :
              /\ tl[2 * j - 1] = name
              /\ \A j2 \in 1..PairCount(tl) : tl[2 * j2 - 1] = name => j2 <= j)]
NamesOf(tl) == { tl[2 * j - 1] : j \in 1..PairCount(tl) }

PairsAsWritten(tl) == [name \in NamesOf(tl) |-> StrVal(LastOf(tl, name))]

PairsEscaped(tl) ==
    [name \in { EscapeString(n) : n \in NamesOf(tl) } |->
        StrVal(EscapeString(LastOf(tl, CHOOSE n \in NamesOf(tl) : EscapeString(n) = name)))]

pRetrieveId42 == MkPath(<<sV1, sTest, sRetrieve, sId, s42>>)

\* GET /v1/test/retrieve/id/42 invokes the handler with Id = 42.
Id42Invoked ==
    (Done /\ r.method = "GET" /\ r.path = pRetrieveId42) =>
        \E i \in At("Call") : log[i].name = "Retrieve" /\ log[i].arg = (sIdU :> IntVal(42))

(* C9 as stated - for a path /version/resource/handler followed by k >= 0  *)
(* name/value pairs, parseGet's route key is exactly                       *)
(* "/version/resource/handler" and the Request Parameter Set maps each     *)
(* name of the path to the value of its last occurrence, and nothing else; *)
(* GET /v1/test/retrieve/id/42 invokes the handler with Id = 42.           *)
C9_AsStated ==
    /\ pc = "getNode" =>
          \A pre \in GenPrefixes, tl \in GenTails :
              r.path = MkPath(pre \o tl) =>
                  /\ routeKey = MkPath(pre)
                  /\ req = PairsAsWritten(tl)
    /\ Id42Invoked

(* C9 as amended - the route key is the HTML-escaped                       *)
(* "/version/resource/handler" and the Request Parameter Set maps each     *)
(* HTML-escaped name of the path to the HTML-escaped value of its last     *)
(* occurrence, and nothing else; GET /v1/test/retrieve/id/42 invokes the   *)
(* handler with Id = 42.                                                   *)
C9_ParseGetRouteKeyAndParams ==
    /\ pc = "getNode" =>
          \A pre \in GenPrefixes, tl \in GenTails :
              r.path = MkPath(pre \o tl) =>
                  /\ routeKey = EscapeString(MkPath(pre))
                  /\ req = PairsEscaped(tl)
    /\ \A i \in At("switch") : log[i].ok
    /\ Id42Invoked

\* A path with the same name twice was parsed, and the later value is the
\* one kept.
C9_Witness ==
    /\ pc = "getNode"
    /\ r.path = MkPath(<<sV1, sTest, sRetrieve, sId, s7, sId, s42>>)
    /\ req = (sId :> StrVal(s42))
    /\ routeKey = pRetrieve

----------------------------------------------------------------------------
(* Package go_router: handlers take the Request map; a path value is       *)
(* replaced in the route key by the tag of its inferred type.              *)

INT    == <<"{","I","n","t","}">>
FLOAT  == <<"{","F","l","o","a","t","}">>
BOOL   == <<"{","B","o","o","l","}">>
STRING_ == <<"{","S","t","r","i","n","g","}">>

\* RequestParam{Type, Value} of package go_router
GoParam(type, val) == [type |-> type, val |-> val]

\* toParam trying ParseBool first: "1" and "0" become booleans.
toParamBoolFirst(s) ==
    IF ~ParseBool(s).err THEN GoParam(BOOL, BoolVal(ParseBool(s).v))
    ELSE IF ~ParseInt(s).err THEN GoParam(INT, IntVal(ParseInt(s).v))
    ELSE IF ~ParseFloat(s).err THEN GoParam(FLOAT, FloatVal(ParseFloat(s).v))
    ELSE GoParam(STRING_, StrVal(s))

\* toParam(i): the first parse that succeeds decides, in the order int64,
\* float64, bool; else the string is kept.
toParam(s) ==
    IF ~ParseInt(s).err THEN GoParam(INT, IntVal(ParseInt(s).v))
    ELSE IF ~ParseFloat(s).err THEN GoParam(FLOAT, FloatVal(ParseFloat(s).v))
    ELSE IF ~ParseBool(s).err THEN GoParam(BOOL, BoolVal(ParseBool(s).v))
    ELSE GoParam(STRING_, StrVal(s))

\* The loop of go_router's parseGet:
\*   for i := 4; i < l; i += 2 { t := toParam(s[i+1]); req[s[i]] = &t; s[i+1] = t.Type }
\* s[i+1] with i+1 = l is an index out of range: a run-time panic.
RECURSIVE GoGetLoop(_, _, _)
GoGetLoop(segs, i, params) ==
    IF i < Len(segs)
    THEN IF i + 1 >= Len(segs)
         THEN [panic |-> TRUE, segs |-> segs, req |-> params]
         ELSE GoGetLoop([segs EXCEPT ![i + 2] = toParam(segs[i + 2]).type],
                        i + 2,
                        Put(params, segs[i + 1], toParam(segs[i + 2])))
    ELSE [panic |-> FALSE, segs |-> segs, req |-> params]

\* parseGet(r, req) of package go_router
GoParseGet(path, params) ==
    LET res == GoGetLoop(Split(EscapeString(TrimRight(path))), 4, params) IN
    [panic |-> res.panic, key |-> Join(res.segs), req |-> res.req]

\* parseForm(r, req) of package go_router
GoParseForm(form, params) ==
    [k \in DOMAIN form \cup DOMAIN params |->
        IF k \in DOMAIN form THEN toParam(form[k][1]) ELSE params[k]]

\* parseBody(r, req) of package go_router: RequestParam{Value: v}, no Type
GoParseBody(body, params) ==
    IF body.err THEN [err |-> TRUE, req |-> params]
    ELSE [err |-> FALSE,
          req |-> [k \in DOMAIN body.obj \cup DOMAIN params |->
                      IF k \in DOMAIN body.obj THEN GoParam(<<>>, body.obj[k]) ELSE params[k]]]

\* switch r.Method { ... } of go_router's Dispatch.  The default case
\* calls notSupported and does not return: Dispatch goes on to preDispatch.
GoSwitch ==
    /\ pc = "switch"
    /\ IF r.method \in {"GET", "DELETE"}
       THEN IF GoParseGet(r.path, req).panic
            THEN /\ Panic
                 /\ UNCHANGED <<routeKey, req, todo>>
            ELSE /\ routeKey' = GoParseGet(r.path, req).key
                 /\ req' = GoParseForm(r.form, GoParseGet(r.path, req).req)
                 /\ pc' = "preDispatch"
                 /\ todo' = DOMAIN filters
                 /\ UNCHANGED w
       ELSE IF r.method = "POST"
       THEN IF GoParseBody(r.body, req).err
            THEN /\ Panic
                 /\ routeKey' = r.path
                 /\ UNCHANGED <<req, todo>>
            ELSE /\ routeKey' = r.path
                 /\ req' = GoParseForm(r.form, GoParseBody(r.body, req).req)
                 /\ pc' = "preDispatch"
                 /\ todo' = DOMAIN filters
                 /\ UNCHANGED w
       ELSE /\ w' = notSupported(w)
            /\ pc' = "preDispatch"
            /\ todo' = DOMAIN filters
            /\ UNCHANGED <<routeKey, req>>
    /\ log' = Append(log, Event("switch", r.method, r.method \in {"GET", "DELETE", "POST"} /\ pc' # "done", EmptyMap))
    /\ UNCHANGED <<routes, filters, r, c, t, cont, last>>

\* c, err := getNode(r.Method, routeKey), after preDispatch returned nil
GoGetNode ==
    /\ pc = "preDispatch"
    /\ todo = {}
    /\ IF getNode(r.method, routeKey).err
       THEN /\ w' = notFound(w)
            /\ pc' = "done"
            /\ UNCHANGED c
       ELSE /\ c' = getNode(r.method, routeKey).node
            /\ pc' = "Call"
            /\ UNCHANGED w
    /\ log' = Append(log, Event("getNode", r.method, pc' = "Call", EmptyMap))
    /\ UNCHANGED <<routes, filters, r, routeKey, req, t, todo, cont, last>>

\* i := reflect.ValueOf(c).Call([]reflect.Value{reflect.ValueOf(req)})
GoCall(out) ==
    /\ pc = "Call"
    /\ cont' = out
    /\ log' = Append(log, Event("Call", c, ~out.err, req))
    /\ IF out.err
       THEN Panic /\ UNCHANGED todo
       ELSE pc' = "postDispatch" /\ todo' = DOMAIN filters /\ UNCHANGED w
    /\ UNCHANGED <<routes, filters, r, routeKey, req, c, t, last>>

\* What a PreDispatch hook of package go_router stores into the map.
GoHookWrites == { EmptyMap, sId :> GoParam(STRING_, StrVal(s9)) }

\* Routes of package go_router are registered with the type tags in place
\* of the values: "/v1/test/retrieve/id/{Int}".
pRetrieveIdInt == MkPath(<<sV1, sTest, sRetrieve, sId, INT>>)
GoRouteKeys == { <<"GET", pRetrieveIdInt>>, <<"GET", pRetrieve>>, <<"POST", pSave>> }

GoNumRoutes == Cardinality({ k \in GoRouteKeys : ~getNode(k[1], k[2]).err })

\* RegisterRoute(method, path, n) of package go_router
GoRegisterRoute(method, path, n) ==
    /\ pc = "idle"
    /\ GoNumRoutes < MaxRoutes \/ RegisterRouteResult(method, path, n).err
    /\ routes' = RegisterRouteResult(method, path, n).routes
    /\ last' = [op |-> "RegisterRoute", a |-> method, b |-> path, node |-> n,
                err |-> RegisterRouteResult(method, path, n).err, before |-> routes]
    /\ UNCHANGED <<filters, pc, r, routeKey, req, c, t, todo, cont, w, log>>

NextGo ==
    \/ \E k \in GoRouteKeys, n \in RouteNodes : GoRegisterRoute(k[1], k[2], n)
    \/ \E name \in FilterNames, f \in FilterObjs : RegisterFilter(name, f)
    \/ \E rq \in Requests : Receive(rq)
    \/ DoParseForm
    \/ GoSwitch
    \/ \E name \in FilterNames, fail \in BOOLEAN, wr \in GoHookWrites : PreHook(name, fail, wr)
    \/ GoGetNode
    \/ \E out \in Outcomes : GoCall(out)
    \/ \E name \in FilterNames, fail \in BOOLEAN : PostHook(name, fail)
    \/ DoMarshal
    \/ Return

SpecGo == Init /\ [][NextGo]_vars

(* C7 - go_router's Dispatch, for a request whose method is not GET,       *)
(* DELETE or POST (and whose form parses), returns right after writing the *)
(* method-not-supported 404 response: no filter hook runs, no route lookup *)
(* is made, no second status or body is written.                           *)
C7_GoUnsupportedMethodReturns ==
    (Done /\ Unsupported(r.method) /\ ~r.formErr) =>
        /\ HookEvents = {} /\ At("getNode") = {} /\ At("Call") = {}
        /\ w.header = <<404>> /\ w.body = <<NotSupportedBody>>

----------------------------------------------------------------------------
\* The last PreDispatch hook before place j of the history that stored the
\* parameter k, or 0.
LastWriter(k, j) ==
    LET ws == { i \in At("PreDispatch") : i < j /\ k \in DOMAIN log[i].wrote } IN
    IF ws = {} THEN 0 ELSE CHOOSE i \in ws : \A i2 \in ws : i2 <= i

WrittenKeys == UNION { DOMAIN log[i].wrote : i \in At("PreDispatch") }

\* Every hook that runs after a PreDispatch hook stored a parameter is given
\* a parameter set holding what was stored.
VisibleToLaterHooks ==
    \A j \in HookEvents : \A k \in WrittenKeys :
        LastWriter(k, j) # 0 =>
            /\ k \in DOMAIN log[j].arg
            /\ log[j].arg[k] = log[LastWriter(k, j)].wrote[k]

\* The handler's input carries what the PreDispatch hooks stored: binding
\* the stored parameter into the input leaves the input as it is.
VisibleToHandler ==
    \A j \in At("Call") : \A k \in WrittenKeys :
        LastWriter(k, j) # 0 =>
            BindOne(HandlerType(c), log[j].arg, k, log[LastWriter(k, j)].wrote[k])
                = [status |-> "ok", t |-> log[j].arg]

\* The handler's input is the container setInputParam bound from the
\* parameter set as it was before the first PreDispatch hook.
HandlerInputBoundBeforeHooks ==
    \A j \in At("Call") : \E b \in At("setInputParam") :
        /\ b < j
        /\ \A i \in At("PreDispatch") : b < i
        /\ \E o \in Orders(DOMAIN log[b].arg) :
              setInputParam(c, log[b].arg, o) = [status |-> "ok", t |-> log[j].arg]

(* C11 as stated - Dispatch (package router): what a filter's PreDispatch  *)
(* hook stores into the Request Parameter Set is seen by every filter that *)
(* runs later, by the handler's input and by the PostDispatch hooks of the *)
(* same request.                                                           *)
C11_AsStated == VisibleToLaterHooks /\ VisibleToHandler

(* C11 - Dispatch (package router): what a filter's PreDispatch hook       *)
(* stores into the Request Parameter Set is seen by every filter that runs *)
(* later and by the PostDispatch hooks of the same request; the handler's  *)
(* input is the container bound before the first PreDispatch hook ran, so  *)
(* it does not carry what the hooks stored.                                *)
C11_HookWritesReachHooksNotHandler ==
    VisibleToLaterHooks /\ HandlerInputBoundBeforeHooks

\* Two filters: the first stored id = "9", the second was given it, the
\* handler ran with the Id bound from the path, the PostDispatch hooks ran.
C11_Witness ==
    /\ Done /\ w.header = <<200>>
    /\ \E i, j \in At("PreDispatch") :
          /\ i < j /\ log[i].wrote # EmptyMap /\ log[j].wrote = EmptyMap
          /\ sId \in DOMAIN log[i].arg /\ log[i].arg[sId] = StrVal(s42)
          /\ log[j].arg[sId] = StrVal(s9)
    /\ \E j \in At("Call") : log[j].arg[sIdU] = IntVal(42)
    /\ \E j \in At("PostDispatch") : log[j].arg[sId] = StrVal(s9)

----------------------------------------------------------------------------
\* setInputParam did not bind the parameter set: it returned an error, or
\* the type assertion v.Value.(string) of line 237 failed.
BindingFailed == \E i \in At("setInputParam") : ~log[i].ok

(* C12 - Dispatch (package router): every binding failure - a parameter    *)
(* name without a container field, a value that does not convert to the    *)
(* field's kind, a field of an unsupported kind - yields the 404 response, *)
(* no filter hook and no handler having run; it never yields 500.          *)
C12_BindingFailureIs404 ==
    BindingFailed =>
        /\ Done
        /\ w.header = <<404>> /\ w.body = <<NotFoundBody>>
        /\ HookEvents = {} /\ At("Call") = {}

----------------------------------------------------------------------------
\* A step failed that Dispatch hands to its deferred recover: form parsing,
\* POST body parsing, a hook, the handler, serialization.
FailureCaught ==
    \/ \E i \in At("ParseForm") : ~log[i].ok
    \/ \E i \in AtNamed("switch", "POST") : ~log[i].ok
    \/ \E i \in HookEvents : ~log[i].ok
    \/ \E i \in At("Call") : ~log[i].ok
    \/ \E i \in At("Marshal") : ~log[i].ok

(* C13 - Dispatch (package router): a request ends with exactly one        *)
(* response: one status among 200, 404 and 500 and one body write; no body *)
(* byte is written before the request is done; a failure of form parsing,  *)
(* POST body parsing, a PreDispatch hook, the handler, a PostDispatch hook *)
(* or serialization ends in the 500 response and no other body.            *)
C13_ExactlyOneResponse ==
    /\ pc \notin {"idle", "done"} => w.header = <<>> /\ w.body = <<>>
    /\ Done =>
          /\ Len(w.header) = 1 /\ w.header[1] \in {200, 404, 500}
          /\ Len(w.body) = 1
          /\ FailureCaught => w.header = <<500>> /\ w.body = <<InternalErrorBody>>

\* Serialization failed after every hook and the handler succeeded: 500.
C13_Witness ==
    /\ Done /\ w.header = <<500>> /\ w.body = <<InternalErrorBody>>
    /\ At("PostDispatch") # {}
    /\ \E i \in At("Marshal") : ~log[i].ok

----------------------------------------------------------------------------
\* The path has an empty segment after its leading slash (a trailing slash
\* is trimmed before the split and makes none).
HasEmptySegment(path) ==
    LET segs == Split(TrimRight(path)) IN \E i \in 2..Len(segs) : segs[i] = <<>>

(* C14 - parseGet (package router): a path with an empty segment, such as  *)
(* /v1//retrieve or /v1/test/retrieve//42, fails the shape check: Dispatch *)
(* answers 404 and no handler is looked up or invoked.                     *)
C14_EmptySegmentFailsShapeCheck ==
    (Done /\ r.method \in {"GET", "DELETE"} /\ ~r.formErr /\ HasEmptySegment(r.path)) =>
        /\ \A i \in At("switch") : ~log[i].ok
        /\ At("getNode") = {} /\ At("Call") = {}
        /\ w.header = <<404>> /\ w.body = <<NotFoundBody>>

----------------------------------------------------------------------------
\* The request's method is GET, DELETE or POST, its path and body parsed,
\* and no handler is registered under its (method, route key).
GoUnregistered ==
    /\ r.method \in {"GET", "DELETE", "POST"}
    /\ \E i \in At("switch") : log[i].ok
    /\ getNode(r.method, routeKey).err

(* C15 - Dispatch (package go_router): the route lookup comes before the   *)
(* pre-dispatch filters: no PreDispatch hook runs before the lookup, and a *)
(* GET, DELETE or POST request whose (method, route key) is not registered *)
(* gets the 404 response without any filter hook having run, so a failing  *)
(* filter cannot make it a 500.                                            *)
C15_GoLookupBeforeFilters ==
    Done =>
        /\ \A i \in At("PreDispatch") : \E j \in At("getNode") : j < i
        /\ GoUnregistered =>
              /\ HookEvents = {}
              /\ w.header = <<404>> /\ w.body = <<NotFoundBody>>

----------------------------------------------------------------------------
\* The path ends with a parameter name that no value follows: its segment
\* count after the trim is odd and at least 5.
TrailingName(path) ==
    LET n == Len(Split(TrimRight(path))) IN n >= 5 /\ n % 2 = 1

(* C17 - parseGet (package go_router): whenever segment i (i = 4, 6, ...)  *)
(* is taken as a parameter name, segment i+1 exists, so the parser never   *)
(* reads past the last segment; a GET or DELETE path ending with a name    *)
(* without a value is answered with the 404 response, not with 500.        *)
C17_GoParseGetStaysInBounds ==
    (Done /\ r.method \in {"GET", "DELETE"} /\ ~r.formErr) =>
        /\ ~GoParseGet(r.path, EmptyMap).panic
        /\ TrailingName(r.path) => w.header = <<404>> /\ w.body = <<NotFoundBody>>

----------------------------------------------------------------------------
(* Package go_router's Dispatch of generated GET requests for the paths    *)
(* /v1/test/retrieve followed by up to MaxPairs name/value pairs, the      *)
(* values being spellings of integers, floats, booleans and other strings. *)

s1     == <<"1">>
s0     == <<"0">>
sNeg7  == <<"-","7">>
s2p5   == <<"2",".","5">>
sInf   == <<"i","n","f">>
sTrue  == <<"t","r","u","e">>

RawValues == { s1, s0, sNeg7, s2p5, sInf, sTrue, sX }
RawNames == { sId, sQ }

RECURSIVE RawTails(_)
RawTails(k) ==
    IF k = 0 THEN { <<>> }
    ELSE { <<name, value>> \o tl : name \in RawNames, value \in RawValues, tl \in RawTails(k - 1) }

TagRequests ==
    { Request(m, MkPath(<<sV1, sTest, sRetrieve>> \o tl), FALSE, EmptyMap, NoBody) :
        m \in {"GET"}, tl \in UNION { RawTails(k) : k \in 0..MaxPairs } }

InitTags ==
    /\ routes = ("GET" :> (pRetrieveIdInt :> "Retrieve"))
    /\ filters = EmptyMap
    /\ pc = "ParseForm"
    /\ r \in TagRequests
    /\ routeKey = <<>>
    /\ req = EmptyMap
    /\ c = NoValue
    /\ t = EmptyMap
    /\ todo = {}
    /\ cont = NoOutcome
    /\ w = NewWriter
    /\ log = <<>>
    /\ last = NoCall

NextTags ==
    \/ DoParseForm
    \/ GoSwitch
    \/ GoGetNode
    \/ \E out \in Outcomes : GoCall(out)
    \/ DoMarshal

SpecTags == InitTags /\ [][NextTags]_vars

\* The tag and the value the parse order gives the raw string s: an int64
\* if it parses as one; a float64 if it parses as a float but as no
\* integer; a bool if it parses only as a boolean; else the string itself.
TagClaimed(s) ==
    CASE ~ParseInt(s).err -> INT
      [] ParseInt(s).err /\ ~ParseFloat(s).err -> FLOAT
      [] ParseInt(s).err /\ ParseFloat(s).err /\ ~ParseBool(s).err -> BOOL
      [] OTHER -> STRING_

ValueClaimed(s) ==
    CASE TagClaimed(s) = INT -> IntVal(ParseInt(s).v)
      [] TagClaimed(s) = FLOAT -> FloatVal(ParseFloat(s).v)
      [] TagClaimed(s) = BOOL -> BoolVal(ParseBool(s).v)
      [] OTHER -> StrVal(s)

\* The places of the value segments among segs: s[5], s[7], ... of the Go
\* slice.
ValuePlaces(segs) == { i \in 1..Len(segs) : i >= 6 /\ i % 2 = 0 }

(* C16 - toParam and parseGet (package go_router): a raw string is tagged  *)
(* by the first parse that succeeds in the order int64, float64, bool,     *)
(* else string: {Int} for every string an integer parses from ("1" and "0" *)
(* included), {Float} for one a float but no integer parses from, {Bool}   *)
(* for one only a boolean parses from, {String} with the string unchanged  *)
(* for any other; parseGet puts exactly this tag in the place of each      *)
(* value segment of the route key and stores the parsed value under the    *)
(* name before it.                                                         *)
C16_ToParamFirstParseDecides ==
    /\ \A s \in RawValues :
          /\ toParam(s).type = TagClaimed(s)
          /\ toParam(s).val = ValueClaimed(s)
    /\ toParam(s1).type = INT /\ toParam(s0).type = INT
    /\ (\E i \in At("switch") : log[i].ok) =>
          LET segs   == Split(EscapeString(TrimRight(r.path)))
              key    == Split(routeKey)
              places == ValuePlaces(segs)
          IN
          /\ Len(key) = Len(segs)
          /\ \A i \in 1..Len(segs) :
                key[i] = IF i \in places THEN TagClaimed(segs[i]) ELSE segs[i]
          /\ DOMAIN req = { segs[i - 1] : i \in places }
          /\ \A i \in places :
                (\A j \in places : j > i => segs[j - 1] # segs[i - 1]) =>
                    /\ req[segs[i - 1]].type = TagClaimed(segs[i])
                    /\ req[segs[i - 1]].val = ValueClaimed(segs[i])

\* /v1/test/retrieve/id/1/q/true was parsed and looked up: the key carries
\* {Int} for "1" and {Bool} for "true".
C16_Witness ==
    /\ r.path = MkPath(<<sV1, sTest, sRetrieve, sId, s1, sQ, sTrue>>)
    /\ routeKey = MkPath(<<sV1, sTest, sRetrieve, sId, INT, sQ, BOOL>>)
    /\ req = (sId :> GoParam(INT, IntVal(1))) @@ (sQ :> GoParam(BOOL, BoolVal(TRUE)))
    /\ pc = "done"

----------------------------------------------------------------------------
\* What setInputParam hands back to Dispatch: the bound container, or the
\* kind of failure (the container of a failed binding is not used).
BindOutcome(h, params, order) ==
    LET res == setInputParam(h, params, order) IN
    IF res.status = "ok" THEN res ELSE [status |-> res.status, t |-> EmptyMap]

(* C18 - setInputParam (package router) is deterministic: for a handler's  *)
(* container type and a Request Parameter Set, the bound container (or the *)
(* failure) is the same for every iteration order over the set, also when  *)
(* the set holds two names differing only in the case of the first         *)
(* character, such as "id" and "Id", which name the same field.            *)
C18_SetInputParamDeterministic ==
    \A i \in At("setInputParam") :
        \A o1, o2 \in Orders(DOMAIN log[i].arg) :
            BindOutcome(log[i].name, log[i].arg, o1) = BindOutcome(log[i].name, log[i].arg, o2)

----------------------------------------------------------------------------
\* A step keeps every entry of both registries bound as it was.
RegistriesKeep ==
    /\ \A m \in DOMAIN routes :
          /\ m \in DOMAIN routes'
          /\ \A p \in DOMAIN routes[m] :
                p \in DOMAIN routes'[m] /\ routes'[m][p] = routes[m][p]
    /\ \A name \in DOMAIN filters :
          name \in DOMAIN filters' /\ filters'[name] = filters[name]

\* A step of Dispatch, from its entry to its return, leaves both registries
\* as they were.
DispatchKeepsRegistries ==
    (pc # "idle" \/ pc' # "idle") => UNCHANGED <<routes, filters>>

(* C19 - The route and filter registries only grow: no step removes or     *)
(* replaces an entry, and every step of Dispatch (on the success, 404 and  *)
(* 500 paths alike) leaves both registries unchanged, so a (method, path)  *)
(* or filter name once registered stays bound to the same handler or       *)
(* filter.                                                                 *)
C19_RegistriesOnlyGrow == [][RegistriesKeep /\ DispatchKeepsRegistries]_vars

\* A request went through its handler and ended in 500, both filters and
\* its route being registered.
C19_Witness ==
    /\ Done /\ w.header = <<500>>
    /\ DOMAIN filters = FilterNames
    /\ ~getNode(r.method, routeKey).err
    /\ At("Call") # {}

----------------------------------------------------------------------------
(* Concurrent requests.  net/http serves every request on a goroutine of   *)
(* its own, so executions of Dispatch interleave.  The variables pc, r,    *)
(* routeKey, req, c, t, todo, cont, w and log are the locals of the        *)
(* execution that is running; `last` holds which execution that is, the    *)
(* request each execution serves, the locals of the executions that are    *)
(* waiting, and whether an execution was ever preempted between its first  *)
(* and its last step.  Both registries are fixed before the first request. *)

Procs == {"A", "B"}

\* The locals of the running execution.
Locals ==
    [pc |-> pc, r |-> r, routeKey |-> routeKey, req |-> req, c |-> c, t |-> t,
     todo |-> todo, cont |-> cont, w |-> w, log |-> log]

\* The locals of an execution of Dispatch(w, r) before its first step.
StartLocals(rq) ==
    [pc |-> "ParseForm", r |-> rq, routeKey |-> <<>>, req |-> EmptyMap, c |-> NoValue,
     t |-> EmptyMap, todo |-> {}, cont |-> NoOutcome, w |-> NewWriter, log |-> <<>>]

\* GET /v1/test/retrieve/id/42, GET /v1/test/retrieve/id/7?q=x, and
\* GET /v1/test/retrieve/id.
ConcRequests ==
    { Request("GET", MkPath(<<sV1, sTest, sRetrieve, sId, s42>>), FALSE, EmptyMap, NoBody),
      Request("GET", MkPath(<<sV1, sTest, sRetrieve, sId, s7>>), FALSE, FormQ, NoBody),
      Request("GET", MkPath(<<sV1, sTest, sRetrieve, sId>>), FALSE, EmptyMap, NoBody) }

InitConc ==
    /\ routes = ("GET" :> (pRetrieve :> "Retrieve"))
    /\ filters = ("auth" :> "F1")
    /\ \E rqs \in [Procs -> ConcRequests] :
          /\ last = [cur |-> "A", rq |-> rqs, preempted |-> FALSE,
                     saved |-> [p \in Procs |-> StartLocals(rqs[p])]]
          /\ r = rqs["A"]
    /\ pc = "ParseForm"
    /\ routeKey = <<>>
    /\ req = EmptyMap
    /\ c = NoValue
    /\ t = EmptyMap
    /\ todo = {}
    /\ cont = NoOutcome
    /\ w = NewWriter
    /\ log = <<>>

\* The scheduler with req being one map of the package instead of a local
\* of Dispatch: the execution resumed goes on with the map as the other
\* execution left it.
YieldSharingReq(q) ==
    /\ q \in Procs \ {last.cur}
    /\ last' = [last EXCEPT !.cur = q,
                            !.saved[last.cur] = Locals,
                            !.preempted = @ \/ pc \notin {"ParseForm", "done"}]
    /\ pc' = last.saved[q].pc
    /\ r' = last.saved[q].r
    /\ routeKey' = last.saved[q].routeKey
    /\ c' = last.saved[q].c
    /\ t' = last.saved[q].t
    /\ todo' = last.saved[q].todo
    /\ cont' = last.saved[q].cont
    /\ w' = last.saved[q].w
    /\ log' = last.saved[q].log
    /\ UNCHANGED <<routes, filters, req>>

\* The scheduler stops the running execution between two of its steps and
\* resumes the execution q: every local of Dispatch (req := make(Request)
\* included) belongs to one execution.
Yield(q) ==
    /\ q \in Procs \ {last.cur}
    /\ last' = [last EXCEPT !.cur = q,
                            !.saved[last.cur] = Locals,
                            !.preempted = @ \/ pc \notin {"ParseForm", "done"}]
    /\ pc' = last.saved[q].pc
    /\ r' = last.saved[q].r
    /\ routeKey' = last.saved[q].routeKey
    /\ req' = last.saved[q].req
    /\ c' = last.saved[q].c
    /\ t' = last.saved[q].t
    /\ todo' = last.saved[q].todo
    /\ cont' = last.saved[q].cont
    /\ w' = last.saved[q].w
    /\ log' = last.saved[q].log
    /\ UNCHANGED <<routes, filters>>

NextConc ==
    \/ \E q \in Procs : Yield(q)
    \/ DoParseForm
    \/ DoSwitch
    \/ DoGetNode
    \/ DoSetInputParam
    \/ DoParseFormMerge
    \/ \E name \in FilterNames, fail \in BOOLEAN, wr \in HookWrites : PreHook(name, fail, wr)
    \/ \E out \in Outcomes : DoCall(out)
    \/ \E name \in FilterNames, fail \in BOOLEAN : PostHook(name, fail)
    \/ DoMarshal

SpecConc == InitConc /\ [][NextConc]_vars

\* The locals of execution p, running or waiting.
LocalsOf(p) == IF p = last.cur THEN Locals ELSE last.saved[p]

----------------------------------------------------------------------------
(* Dispatch run alone, as a function: the locals one step of Dispatch can  *)
(* lead to from the locals l, the registries being those of the state.     *)

Logged(l, e) == [l EXCEPT !.log = Append(l.log, e)]

\* the deferred recover: internalError(w, r), and Dispatch returns
AlonePanic(l) == [l EXCEPT !.w = internalError(l.w), !.pc = "done"]

\* r.ParseForm(), lines 307-311
AloneParseForm(l) ==
    IF l.r.formErr
    THEN AlonePanic(Logged(l, Event("ParseForm", "", FALSE, EmptyMap)))
    ELSE [l EXCEPT !.pc = "switch"]

\* switch r.Method, lines 312-329
AloneSwitch(l) ==
    LET nxt ==
          IF l.r.method \in {"GET", "DELETE"}
          THEN IF parseGet(l.r.path, l.req).err
               THEN [l EXCEPT !.w = notFound(l.w), !.pc = "done"]
               ELSE [l EXCEPT !.routeKey = parseGet(l.r.path, l.req).key,
                              !.req = parseGet(l.r.path, l.req).req,
                              !.pc = "getNode"]
          ELSE IF l.r.method = "POST"
          THEN IF parseBody(l.r.body, l.req).err
               THEN AlonePanic([l EXCEPT !.routeKey = l.r.path])
               ELSE [l EXCEPT !.routeKey = l.r.path,
                              !.req = parseBody(l.r.body, l.req).req,
                              !.pc = "getNode"]
          ELSE [l EXCEPT !.w = notSupported(l.w), !.pc = "done"]
    IN Logged(nxt, Event("switch", l.r.method, nxt.pc = "getNode", EmptyMap))

\* getNode(r.Method, routeKey), lines 331-335
AloneGetNode(l) ==
    LET nxt == IF getNode(l.r.method, l.routeKey).err
               THEN [l EXCEPT !.w = notFound(l.w), !.pc = "done"]
               ELSE [l EXCEPT !.c = getNode(l.r.method, l.routeKey).node,
                              !.pc = "setInputParam"]
    IN Logged(nxt, Event("getNode", l.r.method, nxt.pc = "setInputParam", EmptyMap))

\* setInputParam(i, req), lines 336-341, for one order of the range
AloneSetInputParam(l, order) ==
    LET res == setInputParam(l.c, l.req, order)
        e   == Event("setInputParam", l.c, res.status = "ok", l.req)
        bound == Logged([l EXCEPT !.t = res.t], e)
    IN IF res.status = "ok" THEN [bound EXCEPT !.pc = "parseForm"]
       ELSE IF res.status = "err" THEN [bound EXCEPT !.w = notFound(l.w), !.pc = "done"]
       ELSE AlonePanic(bound)

\* req = parseForm(r, req), line 342
AloneParseFormMerge(l) ==
    LET merged == parseForm(l.r.form, l.req) IN
    Logged([l EXCEPT !.req = merged, !.todo = DOMAIN filters, !.pc = "preDispatch"],
           Event("parseForm", "", TRUE, merged))

\* one PreDispatch hook, lines 140-148 and 343-347
AlonePreHook(l, name, fail, wr) ==
    LET called == Logged([l EXCEPT !.req = wr @@ l.req],
                         HookEvent("PreDispatch", name, ~fail, l.req, wr))
    IN IF fail THEN AlonePanic(called) ELSE [called EXCEPT !.todo = l.todo \ {name}]

\* the handler, lines 349-356
AloneCall(l, out) ==
    LET called == Logged([l EXCEPT !.cont = out], Event("Call", l.c, ~out.err, l.t))
    IN IF out.err THEN AlonePanic(called)
       ELSE [called EXCEPT !.pc = "postDispatch", !.todo = DOMAIN filters]

\* one PostDispatch hook, lines 151-159 and 357-361
AlonePostHook(l, name, fail) ==
    LET called == Logged(l, Event("PostDispatch", name, ~fail, l.req))
    IN IF fail THEN AlonePanic(called) ELSE [called EXCEPT !.todo = l.todo \ {name}]

\* json.Marshal and Fprintf, lines 362-367
AloneMarshal(l) ==
    LET called == Logged(l, Event("Marshal", l.c, ~Marshal(l.cont.result).err, EmptyMap))
    IN IF Marshal(l.cont.result).err THEN AlonePanic(called)
       ELSE [called EXCEPT !.w = WriteBody(l.w, JsonBody(Marshal(l.cont.result).data)),
                           !.pc = "done"]

\* The locals after one step of Dispatch from the locals l.
AloneNext(l) ==
    CASE l.pc = "ParseForm" -> { AloneParseForm(l) }
      [] l.pc = "switch" -> { AloneSwitch(l) }
      [] l.pc = "getNode" -> { AloneGetNode(l) }
      [] l.pc = "setInputParam" ->
            { AloneSetInputParam(l, order) : order \in Orders(DOMAIN l.req) }
      [] l.pc = "parseForm" -> { AloneParseFormMerge(l) }
      [] l.pc = "preDispatch" /\ l.todo # {} ->
            { AlonePreHook(l, x[1], x[2], x[3]) : x \in l.todo \X BOOLEAN \X HookWrites }
      [] l.pc = "preDispatch" /\ l.todo = {} ->
            { AloneCall(l, out) : out \in Outcomes }
      [] l.pc = "postDispatch" /\ l.todo # {} ->
            { AlonePostHook(l, x[1], x[2]) : x \in l.todo \X BOOLEAN }
      [] l.pc = "postDispatch" /\ l.todo = {} -> { AloneMarshal(l) }
      [] OTHER -> {}

\* The locals Dispatch can return with when run alone from the locals l.
RECURSIVE AloneFinals(_)
AloneFinals(l) ==
    IF l.pc = "done" THEN {l} ELSE UNION { AloneFinals(l2) : l2 \in AloneNext(l) }

(* C20 - Request isolation under concurrency: when executions of Dispatch  *)
(* interleave arbitrarily, the registries being fixed beforehand, each     *)
(* request has its own Request Parameter Set: what its filters are given   *)
(* and what is bound into its handler's input comes only from its own      *)
(* path, body and form, and its outcome (status and body) is an outcome it *)
(* has when run alone, the filters and handlers sharing no state.          *)
C20_RequestsIsolated ==
    \A p \in Procs :
        LocalsOf(p).pc = "done" => LocalsOf(p) \in AloneFinals(StartLocals(last.rq[p]))

\* Two different requests, one preempted in mid-flight, both answered 200:
\* one handler ran with Id = 42, the other with Id = 7.
C20_Witness ==
    /\ last.preempted
    /\ \A p \in Procs : LocalsOf(p).pc = "done" /\ LocalsOf(p).w.header = <<200>>
    /\ \E i \in DOMAIN LocalsOf("A").log :
          /\ LocalsOf("A").log[i].ev = "Call"
          /\ LocalsOf("A").log[i].arg = (sIdU :> IntVal(42))
    /\ \E i \in DOMAIN LocalsOf("B").log :
          /\ LocalsOf("B").log[i].ev = "Call"
          /\ LocalsOf("B").log[i].arg = (sIdU :> IntVal(7))

====
